---- MODULE Spec2Model ----
(***************************************************************************)
(* Model of the Dictionary singleton (lexicon loader, point lookup and     *)
(* longest-match query) and of the segmentation loop of the reader page.   *)
(*                                                                         *)
(* A JavaScript string is modelled as a sequence of its UTF-16 code units. *)
(* A code unit is the one-character string that holds it; a code unit that *)
(* a string literal of this language cannot hold is named by its           *)
(* JavaScript escape, in lower case: U+3000 is "\\u3000".  Latin letters    *)
(* stand for the CJK characters of the headwords.                          *)
(***************************************************************************)
EXTENDS Integers, Sequences, FiniteSets, TLC

(***************************************************************************)
(* Bounds of the model.                                                    *)
(***************************************************************************)
\* number of page components (callers of Dictionary.getInstance)
NumCallers == 2
\* largest number of lines joined into one fetched dictionary file
MaxLines == 2
\* longest text handed to get / findLongestMatch / the segmentation loop
MaxTextLen == 3

Callers == 1..NumCallers

(***************************************************************************)
(* Characters and string helpers.                                          *)
(***************************************************************************)
\* characters the regular expression's . does not match: the ECMAScript
\* LineTerminator code points LF, CR, U+2028 and U+2029
LineTerminator == {"\n", "\r", "\\u2028", "\\u2029"}

\* the space separators (category Zs) other than SP and NBSP: U+1680,
\* U+2000 to U+200A, U+202F, U+205F and U+3000
SpaceSeparator ==
    {" ", "\\u2000", "\\u2001", "\\u2002", "\\u2003", "\\u2004",
     "\\u2005", "\\u2006", "\\u2007", "\\u2008", "\\u2009", "\\u200a",
     "\\u202f", "\\u205f", "\\u3000"}

\* TAB, FF and SP
AsciiSpace == {"\t", "\f", " "}
\* VT (U+000B), NBSP (U+00A0) and the byte order mark (U+FEFF)
OtherSpace == {"", " ", "﻿"}

\* characters String.prototype.trim strips and \s matches: the ECMAScript
\* WhiteSpace and LineTerminator code points
WhiteSpace == AsciiSpace \cup OtherSpace \cup SpaceSeparator \cup LineTerminator

Min(S) == CHOOSE x \in S : \A y \in S : x <= y

\* str.substring(from, to) with 0-based, end-exclusive indices
Substring(str, from, to) ==
    IF to <= from THEN << >> ELSE SubSeq(str, from + 1, to)

RECURSIVE TrimStart(_)
TrimStart(str) ==
    IF str # << >> /\ Head(str) \in WhiteSpace THEN TrimStart(Tail(str)) ELSE str

RECURSIVE TrimEnd(_)
TrimEnd(str) ==
    IF str # << >> /\ str[Len(str)] \in WhiteSpace
    THEN TrimEnd(SubSeq(str, 1, Len(str) - 1))
    ELSE str

\* line.trim()
Trim(str) == TrimEnd(TrimStart(str))

\* str.split(sep) for a one-character separator: "" splits into [""]
RECURSIVE SplitFrom(_, _, _)
SplitFrom(str, sep, cur) ==
    IF str = << >> THEN << cur >>
    ELSE IF Head(str) = sep
         THEN << cur >> \o SplitFrom(Tail(str), sep, << >>)
         ELSE SplitFrom(Tail(str), sep, Append(cur, Head(str)))

Split(str, sep) == SplitFrom(str, sep, << >>)

\* array.filter(def => def.length > 0)
FilterNonEmpty(strs) == SelectSeq(strs, LAMBDA d : Len(d) > 0)

\* every character of str[from..to] (1-based, inclusive) is matched by .
AllDot(str, from, to) == \A i \in from..to : str[i] \notin LineTerminator

(***************************************************************************)
(* Dictionary.parseLine: the regular expression                            *)
(*   /^(?!#)(.+?)\s(.+?)\s\[(.+?)\]\s\/(.+?)\/$/                           *)
(* applied to the trimmed line.  Group 1 is s[1..a], group 2 s[a+2..b],    *)
(* group 3 s[b+3..c] and group 4 s[c+4..n-1].  The groups are lazy and the *)
(* matcher backtracks the latest group first, so the match it reports is   *)
(* the one with the least a, then the least b, then the least c.           *)
(***************************************************************************)
EndsOfGroup3(s, b) ==
    { c \in (b + 3)..(Len(s) - 5) :
        /\ s[c + 1] = "]"
        /\ s[c + 2] \in WhiteSpace
        /\ s[c + 3] = "/"
        /\ s[Len(s)] = "/"
        /\ AllDot(s, b + 3, c)
        /\ AllDot(s, c + 4, Len(s) - 1) }

EndsOfGroup2(s, a) ==
    { b \in (a + 2)..(Len(s) - 2) :
        /\ s[b + 1] \in WhiteSpace
        /\ s[b + 2] = "["
        /\ AllDot(s, a + 2, b)
        /\ EndsOfGroup3(s, b) # {} }

EndsOfGroup1(s) ==
    { a \in 1..(Len(s) - 1) :
        /\ s[1] # "#"
        /\ s[a + 1] \in WhiteSpace
        /\ AllDot(s, 1, a)
        /\ EndsOfGroup2(s, a) # {} }

\* the JavaScript values null and undefined
Null == [kind |-> "null"]
Undefined == [kind |-> "undefined"]

parseLine(line) ==
    LET s == Trim(line)
    IN  IF EndsOfGroup1(s) = {} THEN Null
        ELSE LET a == Min(EndsOfGroup1(s))
                 b == Min(EndsOfGroup2(s, a))
                 c == Min(EndsOfGroup3(s, b))
             IN  [kind |-> "entry",
                  traditional |-> SubSeq(s, 1, a),
                  simplified |-> SubSeq(s, a + 2, b),
                  pinyin |-> SubSeq(s, b + 3, c),
                  definitions |->
                      FilterNonEmpty(Split(SubSeq(s, c + 4, Len(s) - 1), "/"))]

(***************************************************************************)
(* Inputs: the fetched dictionary files and the texts handed to queries.   *)
(***************************************************************************)
\* Lines of a dictionary file.
\* "a a [p] /d/"
LineA == << "a", " ", "a", " ", "[", "p", "]", " ", "/", "d", "/" >>
\* "ab a [q] /e/f/": its simplified headword collides with LineA's
LineAB == << "a", "b", " ", "a", " ", "[", "q", "]", " ", "/", "e", "/", "f", "/" >>
\* "#b b [p] /d/": a comment
LineComment == << "#", "b", " ", "b", " ", "[", "p", "]", " ", "/", "d", "/" >>
\* "b [p] /d/": one headword only
LineMalformed == << "b", " ", "[", "p", "]", " ", "/", "d", "/" >>
\* "\u3000bab b [p] //d/\r": surrounding white space (an ideographic space
\* and a carriage return) and an empty gloss
LineBAB ==
    << "\\u3000", "b", "a", "b", " ", "b", " ", "[", "p", "]", " ", "/", "/", "d",
       "/", "\r" >>

LinePool == { LineA, LineAB, LineComment, LineMalformed, LineBAB }

RECURSIVE LineSeqs(_)
LineSeqs(n) ==
    IF n = 0 THEN { << >> }
    ELSE LineSeqs(n - 1) \cup
         { Append(ls, l) : ls \in { x \in LineSeqs(n - 1) : Len(x) = n - 1 },
                           l \in LinePool }

\* the lines joined by newlines, as the file holds them
RECURSIVE Join(_)
Join(ls) ==
    IF ls = << >> THEN << >>
    ELSE IF Len(ls) = 1 THEN ls[1]
    ELSE ls[1] \o << "\n" >> \o Join(Tail(ls))

\* every file of at most MaxLines lines
RawSources == { Join(ls) : ls \in LineSeqs(MaxLines) }

\* three files: an empty one, one entry, two entries with a common key
SampleSources == { << >>, LineA, Join(<< LineA, LineAB >>) }

TextChars == {"a", "b"}

RECURSIVE StringsUpTo(_)
StringsUpTo(n) ==
    IF n = 0 THEN { << >> }
    ELSE StringsUpTo(n - 1) \cup
         { Append(t, ch) : t \in { x \in StringsUpTo(n - 1) : Len(x) = n - 1 },
                           ch \in TextChars }

Texts == StringsUpTo(MaxTextLen)

(***************************************************************************)
(* State.                                                                  *)
(***************************************************************************)
VARIABLES
    instance,         \* Dictionary.instance is set
    entries,          \* this.entries: headword -> entry
    isInitialized,    \* this.isInitialized
    maxKeyLength,     \* this.maxKeyLength
    loadpc,           \* where initialize() stands
    rawData,          \* the text initialize() read from the response, if any
    initializeCalls,  \* how many times initialize() was called
    callerpc,         \* where each component's initDictionary() stands
    calledWhen,       \* loadpc at the moment the component called getInstance
    dictionary,       \* the component's state: it holds the instance
    isLoading,        \* the component's state
    error,            \* the component's state: an error message is set
    lastQuery         \* the query being served and its result

index == << entries, isInitialized, maxKeyLength >>
loader == << instance, loadpc, rawData, initializeCalls >>
components == << callerpc, calledWhen, dictionary, isLoading, error >>
vars == << instance, entries, isInitialized, maxKeyLength, loadpc, rawData,
           initializeCalls, callerpc, calledWhen, dictionary, isLoading,
           error, lastQuery >>

(***************************************************************************)
(* Dictionary.initialize, from the split of the text to maxKeyLength.      *)
(***************************************************************************)
\* Map.prototype.set
MapSet(map, key, value) ==
    [ k \in DOMAIN map \cup {key} |-> IF k = key THEN value ELSE map[k] ]

\* an insertion that keeps the entry a key already has
InsertLineKeepFirst(map, line) ==
    LET entry == parseLine(line)
        first == IF entry.traditional \in DOMAIN map THEN map
                 ELSE MapSet(map, entry.traditional, entry)
    IN  IF entry # Null
        THEN IF entry.simplified \in DOMAIN first THEN first
             ELSE MapSet(first, entry.simplified, entry)
        ELSE map

\* the body of the loop over the lines
InsertLine(map, line) ==
    LET entry == parseLine(line)
    IN  IF entry # Null
        THEN MapSet(MapSet(map, entry.traditional, entry), entry.simplified, entry)
        ELSE map

\* a loop that stops at the first line parseLine rejects
RECURSIVE InsertLinesUntilRejected(_, _)
InsertLinesUntilRejected(map, lines) ==
    IF lines = << >> \/ parseLine(Head(lines)) = Null THEN map
    ELSE InsertLinesUntilRejected(InsertLine(map, Head(lines)), Tail(lines))

RECURSIVE InsertLines(_, _)
InsertLines(map, lines) ==
    IF lines = << >> THEN map
    ELSE InsertLines(InsertLine(map, Head(lines)), Tail(lines))

\* the loop with its comparison turned round
RECURSIVE LongestKeyFlipped(_, _)
LongestKeyFlipped(keys, maxLen) ==
    IF keys = {} THEN maxLen
    ELSE LET key == CHOOSE k \in keys : TRUE
         IN  LongestKeyFlipped(keys \ {key},
                               IF Len(key) < maxLen THEN Len(key) ELSE maxLen)

\* the loop over this.entries.keys()
RECURSIVE LongestKey(_, _)
LongestKey(keys, maxLen) ==
    IF keys = {} THEN maxLen
    ELSE LET key == CHOOSE k \in keys : TRUE
         IN  LongestKey(keys \ {key}, IF Len(key) > maxLen THEN Len(key) ELSE maxLen)

(***************************************************************************)
(* Queries.                                                                *)
(***************************************************************************)
\* a get that raises an error when the dictionary is not ready
getOrThrow(character) ==
    IF ~isInitialized THEN [kind |-> "error"]
    ELSE IF character \in DOMAIN entries THEN entries[character] ELSE Undefined

get(character) ==
    IF ~isInitialized THEN Undefined
    ELSE IF character \in DOMAIN entries THEN entries[character] ELSE Undefined

\* the loop with the bound test startIndex + length < text.length
RECURSIVE ScanLengthsStrict(_, _, _)
ScanLengthsStrict(text, startIndex, length) ==
    IF ~(length > 0) THEN Null
    ELSE IF /\ startIndex + length < Len(text)
            /\ Substring(text, startIndex, startIndex + length) \in DOMAIN entries
         THEN [kind |-> "string",
               value |-> Substring(text, startIndex, startIndex + length)]
         ELSE ScanLengthsStrict(text, startIndex, length - 1)

\* the loop of findLongestMatch, from `length` down to 1
RECURSIVE ScanLengths(_, _, _)
ScanLengths(text, startIndex, length) ==
    IF ~(length > 0) THEN Null
    ELSE IF /\ startIndex + length <= Len(text)
            /\ Substring(text, startIndex, startIndex + length) \in DOMAIN entries
         THEN [kind |-> "string",
               value |-> Substring(text, startIndex, startIndex + length)]
         ELSE ScanLengths(text, startIndex, length - 1)

findLongestMatch(text, startIndex) ==
    IF ~isInitialized THEN Null ELSE ScanLengths(text, startIndex, maxKeyLength)

\* if (match): null and the empty string are falsy
Truthy(match) == match # Null /\ match.value # << >>

\* an iteration that advances by one character after a match too
SegmentStepByOne(text, st) ==
    LET match == findLongestMatch(text, st.i)
    IN  [segments |-> Append(st.segments,
            IF Truthy(match)
            THEN [content |-> match.value, isMatch |-> TRUE, startIndex |-> st.i]
            ELSE [content |-> << text[st.i + 1] >>, isMatch |-> FALSE,
                  startIndex |-> st.i]),
         i |-> st.i + 1]

\* an iteration that marks the single character as a match too
SegmentStepAllMatched(text, st) ==
    LET match == findLongestMatch(text, st.i)
    IN  IF Truthy(match)
        THEN [segments |-> Append(st.segments,
                  [content |-> match.value, isMatch |-> TRUE, startIndex |-> st.i]),
              i |-> st.i + Len(match.value)]
        ELSE [segments |-> Append(st.segments,
                  [content |-> << text[st.i + 1] >>, isMatch |-> TRUE,
                   startIndex |-> st.i]),
              i |-> st.i + 1]

\* one iteration of the while loop of InteractiveText
SegmentStep(text, st) ==
    LET match == findLongestMatch(text, st.i)
    IN  IF Truthy(match)
        THEN [segments |-> Append(st.segments,
                  [content |-> match.value, isMatch |-> TRUE, startIndex |-> st.i]),
              i |-> st.i + Len(match.value)]
        ELSE [segments |-> Append(st.segments,
                  [content |-> << text[st.i + 1] >>, isMatch |-> FALSE,
                   startIndex |-> st.i]),
              i |-> st.i + 1]

\* the while loop, cut off after `fuel` iterations
RECURSIVE SegmentLoop(_, _, _)
SegmentLoop(text, st, fuel) ==
    IF ~(st.i < Len(text)) THEN [segments |-> st.segments, i |-> st.i, exited |-> TRUE]
    ELSE IF fuel = 0 THEN [segments |-> st.segments, i |-> st.i, exited |-> FALSE]
    ELSE SegmentLoop(text, SegmentStep(text, st), fuel - 1)

Segmentation(text) == SegmentLoop(text, [segments |-> << >>, i |-> 0], Len(text))

(***************************************************************************)
(* Initial state: no instance, no component has started.                   *)
(***************************************************************************)
Init ==
    /\ instance = FALSE
    /\ entries = << >>
    /\ isInitialized = FALSE
    /\ maxKeyLength = 0
    /\ loadpc = "none"
    /\ rawData = Undefined
    /\ initializeCalls = 0
    /\ callerpc = [c \in Callers |-> "idle"]
    /\ calledWhen = [c \in Callers |-> "never"]
    /\ dictionary = [c \in Callers |-> FALSE]
    /\ isLoading = [c \in Callers |-> TRUE]
    /\ error = [c \in Callers |-> FALSE]
    /\ lastQuery = [op |-> "none"]

(***************************************************************************)
(* Dictionary.getInstance, called by a component's initDictionary().       *)
(***************************************************************************)
\* the guard as the comment above it words it: no instance, or not initialized
NoInstanceOrNotInitialized == ~instance \/ ~isInitialized

\* the guard left out
AlwaysCreate == TRUE

\* if (!Dictionary.instance)
NoInstance == ~instance

\* No query is being served.  A query is synchronous and JavaScript runs a
\* callback to completion, so nothing else runs between a query's call and
\* its return.
Idle == lastQuery.op = "none"

\* The call up to its first await.  Without an instance it constructs one
\* and calls initialize(), which calls fetch and suspends; with an instance
\* it returns that instance, and the caller's await resumes later.
GetInstance(c) ==
    /\ Idle
    /\ callerpc[c] = "idle"
    /\ calledWhen' = [calledWhen EXCEPT ![c] = loadpc]
    /\ IF NoInstance
       THEN /\ instance' = TRUE
            /\ entries' = << >>
            /\ isInitialized' = FALSE
            /\ maxKeyLength' = 0
            /\ loadpc' = "fetch"
            /\ initializeCalls' = initializeCalls + 1
            /\ callerpc' = [callerpc EXCEPT ![c] = "awaitInitialize"]
            /\ UNCHANGED rawData
       ELSE /\ callerpc' = [callerpc EXCEPT ![c] = "awaitInstance"]
            /\ UNCHANGED << index, loader >>
    /\ UNCHANGED << dictionary, isLoading, error, lastQuery >>

(***************************************************************************)
(* Dictionary.initialize.                                                  *)
(***************************************************************************)
\* fetch(dataUrl) rejects: the catch block rethrows
FetchRejects ==
    /\ Idle
    /\ loadpc = "fetch"
    /\ loadpc' = "failed"
    /\ UNCHANGED << instance, rawData, initializeCalls, index, components, lastQuery >>

\* fetch(dataUrl) resolves: a response that is not ok is thrown as an error,
\* an ok one is read with response.text()
FetchResolves(ok) ==
    /\ Idle
    /\ loadpc = "fetch"
    /\ loadpc' = IF ok THEN "text" ELSE "failed"
    /\ UNCHANGED << instance, rawData, initializeCalls, index, components, lastQuery >>

\* response.text() rejects
TextRejects ==
    /\ Idle
    /\ loadpc = "text"
    /\ loadpc' = "failed"
    /\ UNCHANGED << instance, rawData, initializeCalls, index, components, lastQuery >>

\* a build that sets the flag and hands control back before maxKeyLength
\* is computed
TextResolvesFlagFirst(raw) ==
    /\ Idle
    /\ loadpc = "text"
    /\ rawData' = [kind |-> "string", value |-> raw]
    /\ entries' = InsertLines(entries, Split(raw, "\n"))
    /\ isInitialized' = TRUE
    /\ loadpc' = "done"
    /\ UNCHANGED << maxKeyLength, instance, initializeCalls, components, lastQuery >>

\* response.text() resolves with the file: the lines are parsed and
\* inserted, isInitialized is set and maxKeyLength computed, with no await
\* in between
TextResolves(raw) ==
    /\ Idle
    /\ loadpc = "text"
    /\ rawData' = [kind |-> "string", value |-> raw]
    /\ entries' = InsertLines(entries, Split(raw, "\n"))
    /\ isInitialized' = TRUE
    /\ maxKeyLength' = LongestKey(DOMAIN entries', 0)
    /\ loadpc' = "done"
    /\ UNCHANGED << instance, initializeCalls, components, lastQuery >>

(***************************************************************************)
(* initDictionary() of a component resumes after its await.                *)
(***************************************************************************)
Resume(c) ==
    /\ Idle
    /\ \/ callerpc[c] = "awaitInstance"
       \/ callerpc[c] = "awaitInitialize" /\ loadpc \in {"done", "failed"}
    /\ IF callerpc[c] = "awaitInitialize" /\ loadpc = "failed"
       THEN error' = [error EXCEPT ![c] = TRUE] /\ UNCHANGED dictionary
       ELSE dictionary' = [dictionary EXCEPT ![c] = TRUE] /\ UNCHANGED error
    /\ isLoading' = [isLoading EXCEPT ![c] = FALSE]
    /\ callerpc' = [callerpc EXCEPT ![c] = "returned"]
    /\ UNCHANGED << calledWhen, index, loader, lastQuery >>

(***************************************************************************)
(* The public queries, called by a component that holds the instance.      *)
(***************************************************************************)
\* handleKeyDown: dictionary.get(word)
Get(c, character) ==
    /\ Idle
    /\ dictionary[c]
    /\ lastQuery' = [op |-> "get", character |-> character,
                     ready |-> isInitialized, result |-> get(character)]
    /\ UNCHANGED << index, loader, components >>

\* the precondition 0 <= startIndex <= text.length is the caller's
FindLongestMatch(c, text, startIndex) ==
    /\ Idle
    /\ dictionary[c]
    /\ startIndex <= Len(text)
    /\ lastQuery' = [op |-> "findLongestMatch", text |-> text,
                     startIndex |-> startIndex, ready |-> isInitialized,
                     result |-> findLongestMatch(text, startIndex)]
    /\ UNCHANGED << index, loader, components >>

\* InteractiveText: without a dictionary the text is rendered as it is
InteractiveText(c, text) ==
    /\ Idle
    /\ lastQuery' = IF ~dictionary[c]
                    THEN [op |-> "plainText", text |-> text]
                    ELSE [op |-> "segments", text |-> text,
                          ready |-> isInitialized, result |-> Segmentation(text)]
    /\ UNCHANGED << index, loader, components >>

\* the query being served returns to the event loop
Return ==
    /\ ~Idle
    /\ lastQuery' = [op |-> "none"]
    /\ UNCHANGED << index, loader, components >>

Queries ==
    \/ \E c \in Callers, character \in Texts : Get(c, character)
    \/ \E c \in Callers, text \in Texts, startIndex \in 0..MaxTextLen :
          FindLongestMatch(c, text, startIndex)
    \/ \E c \in Callers, text \in Texts : InteractiveText(c, text)
    \/ Return

(***************************************************************************)
(* Spec: the whole program, any number of components calling getInstance,  *)
(* with the fetched file drawn from SampleSources.                         *)
(***************************************************************************)
Next ==
    \/ \E c \in Callers : GetInstance(c)
    \/ FetchRejects
    \/ \E ok \in BOOLEAN : FetchResolves(ok)
    \/ TextRejects
    \/ \E raw \in SampleSources : TextResolves(raw)
    \/ \E c \in Callers : Resume(c)
    \/ Queries

Spec == Init /\ [][Next]_vars

(***************************************************************************)
(* SpecIndex: the build and the queries over every file of RawSources.     *)
(* It starts in the state Spec reaches by GetInstance(1), GetInstance(2),  *)
(* Resume(2): the fetch is pending, component 1 waits for initialize() and *)
(* component 2 already holds the instance; no further component arrives.   *)
(***************************************************************************)
InitIndex ==
    /\ instance = TRUE
    /\ entries = << >>
    /\ isInitialized = FALSE
    /\ maxKeyLength = 0
    /\ loadpc = "fetch"
    /\ rawData = Undefined
    /\ initializeCalls = 1
    /\ callerpc = [c \in Callers |->
                     IF c = 1 THEN "awaitInitialize"
                     ELSE IF c = 2 THEN "returned" ELSE "idle"]
    /\ calledWhen = [c \in Callers |->
                       IF c = 1 THEN "none" ELSE IF c = 2 THEN "fetch" ELSE "never"]
    /\ dictionary = [c \in Callers |-> c = 2]
    /\ isLoading = [c \in Callers |-> c # 2]
    /\ error = [c \in Callers |-> FALSE]
    /\ lastQuery = [op |-> "none"]

NextIndex ==
    \/ FetchRejects
    \/ \E ok \in BOOLEAN : FetchResolves(ok)
    \/ TextRejects
    \/ \E raw \in RawSources : TextResolves(raw)
    \/ \E c \in Callers : Resume(c)
    \/ Queries

SpecIndex == InitIndex /\ [][NextIndex]_vars

(***************************************************************************)
(* Claims about getInstance and the load.                                  *)
(***************************************************************************)

\* C1: every getInstance call that resolves does so only once the instance
\* has completed construction: a component that holds the instance holds a
\* built one, also when it asked while the first load was still in flight.
C1_ResolvesOnlyWhenBuilt ==
    \A c \in Callers : dictionary[c] => isInitialized

\* C2: initialize() is started at most once, whatever the calls of
\* getInstance and whenever they are made: during the load, after it
\* succeeded, after it failed.
C2_InitializeAtMostOnce == initializeCalls <= 1

\* a component called getInstance after the load had failed, its call has
\* returned, and initialize() was still called once only
C2_Witness ==
    /\ initializeCalls = 1
    /\ loadpc = "failed"
    /\ \E c \in Callers : calledWhen[c] = "failed" /\ callerpc[c] = "returned"

\* C3: when the source cannot be obtained, every getInstance call ends
\* with an error, the one that triggered the load and the ones made during
\* or after it, and no component receives the instance.
C3_FailureReachesEveryCaller ==
    loadpc = "failed" =>
        \A c \in Callers :
            /\ ~dictionary[c]
            /\ callerpc[c] = "returned" => error[c]

\* C4: while the dictionary is not initialized, get returns undefined and
\* findLongestMatch returns null for every argument, and the query leaves
\* entries, maxKeyLength and isInitialized as they are.
C4_NotReadyQueries ==
    [][ (~isInitialized /\ Idle /\ lastQuery'.op \in {"get", "findLongestMatch"}) =>
            /\ lastQuery'.result =
                  IF lastQuery'.op = "get" THEN Undefined ELSE Null
            /\ UNCHANGED index ]_vars

\* get was served on the instance of a failed load
C4_Witness ==
    /\ loadpc = "failed"
    /\ lastQuery.op = "get"
    /\ ~lastQuery.ready
    /\ lastQuery.result = Undefined

(***************************************************************************)
(* Claims about the build and the queries.                                 *)
(***************************************************************************)
Max(S) == CHOOSE x \in S : \A y \in S : x >= y

\* the contents of the segments, concatenated in order
RECURSIVE Concat(_)
Concat(segments) ==
    IF segments = << >> THEN << >>
    ELSE Head(segments).content \o Concat(Tail(segments))

\* what parseLine returns for each line of the file read
ParsedLines ==
    LET lines == Split(rawData.value, "\n")
    IN  [ n \in 1..Len(lines) |-> parseLine(lines[n]) ]

\* the lines of `parsed` that are entries with the headword key
LinesWithHeadword(parsed, key) ==
    { n \in DOMAIN parsed :
        /\ parsed[n] # Null
        /\ key \in { parsed[n].traditional, parsed[n].simplified } }

\* the headwords of all entries of `parsed`
Headwords(parsed) ==
    UNION { { parsed[n].traditional, parsed[n].simplified } :
              n \in { m \in DOMAIN parsed : parsed[m] # Null } }

\* C5: the segmentation loop ends, whatever the text and the index (built
\* or not initialized); its segments start at 0, each starts where the one
\* before ends, the last ends at the length of the text, and their contents
\* concatenated are the text.
C5_SegmentsCoverText ==
    lastQuery.op = "segments" =>
        LET text == lastQuery.text
            segments == lastQuery.result.segments
            end(n) == segments[n].startIndex + Len(segments[n].content)
        IN  /\ lastQuery.result.exited
            /\ lastQuery.result.i = Len(text)
            /\ segments = << >> <=> text = << >>
            /\ segments # << >> =>
                  segments[1].startIndex = 0 /\ end(Len(segments)) = Len(text)
            /\ \A n \in 1..Len(segments) : Len(segments[n].content) >= 1
            /\ \A n \in 1..(Len(segments) - 1) : segments[n + 1].startIndex = end(n)
            /\ Concat(segments) = text

\* a text was cut into a match of two or more characters and an unmatched
\* character
C5_Witness ==
    /\ lastQuery.op = "segments"
    /\ \E n, m \in 1..Len(lastQuery.result.segments) :
          /\ lastQuery.result.segments[n].isMatch
          /\ Len(lastQuery.result.segments[n].content) >= 2
          /\ ~lastQuery.result.segments[m].isMatch

\* C6: on a built index findLongestMatch(text, startIndex) returns the
\* substring of the greatest length L with startIndex + L <= length(text)
\* that is a key, and null exactly when there is no such L.
C6_LongestMatch ==
    (lastQuery.op = "findLongestMatch" /\ lastQuery.ready) =>
        LET text == lastQuery.text
            startIndex == lastQuery.startIndex
            lengths == { L \in 1..(Len(text) - startIndex) :
                           SubSeq(text, startIndex + 1, startIndex + L)
                               \in DOMAIN entries }
        IN  IF lengths = {} THEN lastQuery.result = Null
            ELSE /\ lastQuery.result # Null
                 /\ lastQuery.result.value =
                       SubSeq(text, startIndex + 1, startIndex + Max(lengths))

\* a match of two or more characters was returned where a shorter key
\* matches too
C6_Witness ==
    /\ lastQuery.op = "findLongestMatch"
    /\ lastQuery.ready
    /\ lastQuery.result # Null
    /\ Len(lastQuery.result.value) >= 2
    /\ << lastQuery.text[lastQuery.startIndex + 1] >> \in DOMAIN entries

\* C7: after a successful build get(k) returns the entry of the last line
\* that has k as its traditional or simplified headword, and undefined
\* exactly when no line has; k ranges over the texts and all headwords.
C7_LastLineWins ==
    loadpc = "done" =>
        LET parsed == ParsedLines
        IN  \A key \in Texts \cup Headwords(parsed) :
               LET holders == LinesWithHeadword(parsed, key)
               IN  get(key) = IF holders = {} THEN Undefined
                              ELSE parsed[Max(holders)]

\* two lines with different entries share a headword, and get was served
\* for that headword
C7_Witness ==
    /\ loadpc = "done"
    /\ lastQuery.op = "get"
    /\ LET parsed == ParsedLines
           holders == LinesWithHeadword(parsed, lastQuery.character)
       IN  /\ \E n, m \in holders : n < m /\ parsed[n] # parsed[m]
           /\ lastQuery.result = parsed[Max(holders)]

\* C9: once the file was read the build ends initialized whatever its
\* lines: a rejected line adds no key and the headwords of every accepted
\* line, before or after a rejected one, are keys.
C9_RejectedLinesSkipped ==
    rawData # Undefined =>
        /\ loadpc = "done"
        /\ isInitialized
        /\ DOMAIN entries = Headwords(ParsedLines)

\* a rejected line is followed by an accepted one whose headwords are keys
C9_Witness ==
    /\ loadpc = "done"
    /\ LET parsed == ParsedLines
       IN  \E n, m \in DOMAIN parsed :
              /\ n < m
              /\ parsed[n] = Null
              /\ parsed[m] # Null
              /\ parsed[m].traditional \in DOMAIN entries

\* C10: after the build maxKeyLength is the greatest length of a key, and 0
\* when there is no key.
C10_MaxKeyLength ==
    loadpc = "done" =>
        /\ \A key \in DOMAIN entries : Len(key) <= maxKeyLength
        /\ DOMAIN entries = {} => maxKeyLength = 0
        /\ DOMAIN entries # {} => \E key \in DOMAIN entries : Len(key) = maxKeyLength

\* keys of different lengths are present
C10_Witness ==
    /\ loadpc = "done"
    /\ maxKeyLength = 3
    /\ \E key \in DOMAIN entries : Len(key) < maxKeyLength

(***************************************************************************)
(* Claim about the built index under the whole program.                    *)
(***************************************************************************)

\* C8: once the build has completed no step changes entries, maxKeyLength
\* or isInitialized, neither a query nor a further getInstance call, so
\* get, a function of these and its argument, answers alike every time.
C8_BuiltIndexImmutable ==
    [][ isInitialized =>
           /\ isInitialized'
           /\ entries' = entries
           /\ maxKeyLength' = maxKeyLength
           /\ \A key \in Texts : get(key)' = get(key) ]_vars

\* on a built index a component that called getInstance after the build
\* has its instance, and get found an entry
C8_Witness ==
    /\ isInitialized
    /\ \E c \in Callers : calledWhen[c] = "done" /\ dictionary[c]
    /\ lastQuery.op = "get"
    /\ lastQuery.result # Undefined

(***************************************************************************)
(* SpecParse: Dictionary.parseLine, a static pure function, applied to     *)
(* every line "<head> [p] /d/" whose head is a string of at most           *)
(* MaxHeadLen characters of HeadChars.                                     *)
(***************************************************************************)
\* longest text put before the bracketed pronunciation
MaxHeadLen == 4

\* two letters, a space, the comment mark and the line separator U+2028,
\* which \s matches and . does not
HeadChars == {"a", "b", " ", "#", "\\u2028"}

RECURSIVE HeadsUpTo(_)
HeadsUpTo(n) ==
    IF n = 0 THEN { << >> }
    ELSE HeadsUpTo(n - 1) \cup
         { Append(h, ch) : h \in { x \in HeadsUpTo(n - 1) : Len(x) = n - 1 },
                           ch \in HeadChars }

\* " [p] /d/"
LineRest == << " ", "[", "p", "]", " ", "/", "d", "/" >>

ParseInputs == { head \o LineRest : head \in HeadsUpTo(MaxHeadLen) }

ParseLine(line) ==
    /\ Idle
    /\ lastQuery' = [op |-> "parseLine", line |-> line, result |-> parseLine(line)]
    /\ UNCHANGED << index, loader, components >>

NextParse ==
    \/ \E line \in ParseInputs : ParseLine(line)
    \/ Return

SpecParse == Init /\ [][NextParse]_vars

\* the trimmed text of the line before its first "["
RECURSIVE UpToBracket(_)
UpToBracket(str) ==
    IF str = << >> \/ Head(str) = "[" THEN << >>
    ELSE << Head(str) >> \o UpToBracket(Tail(str))

TextBeforeBracket(line) == Trim(UpToBracket(Trim(line)))

\* the number of maximal runs of characters that are not white space
RECURSIVE CountRuns(_, _)
CountRuns(str, inRun) ==
    IF str = << >> THEN 0
    ELSE IF Head(str) \in WhiteSpace THEN CountRuns(Tail(str), FALSE)
    ELSE (IF inRun THEN 0 ELSE 1) + CountRuns(Tail(str), TRUE)

HasWhiteSpace(str) == \E n \in 1..Len(str) : str[n] \in WhiteSpace

\* C11: when parseLine returns an entry its traditional and simplified
\* headwords are non-empty and hold no white space, and a line whose text
\* before the bracketed pronunciation is not exactly two runs separated by
\* white space yields null.
C11_HeadwordsAreRuns ==
    lastQuery.op = "parseLine" =>
        /\ lastQuery.result # Null =>
              /\ lastQuery.result.traditional # << >>
              /\ lastQuery.result.simplified # << >>
              /\ ~HasWhiteSpace(lastQuery.result.traditional)
              /\ ~HasWhiteSpace(lastQuery.result.simplified)
        /\ CountRuns(TextBeforeBracket(lastQuery.line), FALSE) # 2 =>
              lastQuery.result = Null

(***************************************************************************)
(* Claims about the segments and about the order of the build's writes.    *)
(***************************************************************************)

\* C12: in a segmentation against a built index a matched segment has one
\* character or more and its content is a key, so get finds its entry; an
\* unmatched segment is one character long and starts where
\* findLongestMatch returns null.
C12_SegmentKinds ==
    (lastQuery.op = "segments" /\ lastQuery.ready) =>
        \A n \in 1..Len(lastQuery.result.segments) :
            LET segment == lastQuery.result.segments[n]
            IN  IF segment.isMatch
                THEN /\ Len(segment.content) >= 1
                     /\ segment.content \in DOMAIN entries
                     /\ get(segment.content) # Undefined
                ELSE /\ Len(segment.content) = 1
                     /\ findLongestMatch(lastQuery.text, segment.startIndex) = Null
                     /\ segment.content \notin DOMAIN entries

\* a built index cut a text into a matched and an unmatched segment
C12_Witness ==
    /\ lastQuery.op = "segments"
    /\ lastQuery.ready
    /\ \E n, m \in 1..Len(lastQuery.result.segments) :
          /\ lastQuery.result.segments[n].isMatch
          /\ ~lastQuery.result.segments[m].isMatch

\* C13: in every state a query can observe, isInitialized implies that the
\* headwords of every parsed entry are keys and that maxKeyLength is the
\* length of the longest key; an initialized index never shows
\* maxKeyLength 0 with keys present.
C13_InitializedMeansComplete ==
    isInitialized =>
        /\ rawData # Undefined
        /\ Headwords(ParsedLines) \subseteq DOMAIN entries
        /\ DOMAIN entries # {} =>
              /\ maxKeyLength > 0
              /\ maxKeyLength = Max({ Len(key) : key \in DOMAIN entries })

\* findLongestMatch was served on an initialized index and returned a key
\* of two or more characters
C13_Witness ==
    /\ isInitialized
    /\ lastQuery.op = "findLongestMatch"
    /\ lastQuery.ready
    /\ lastQuery.result # Null
    /\ Len(lastQuery.result.value) >= 2

====
